---- MODULE Spec2Model ----
(***************************************************************************)
(* A model of web_deepseek/app.py: the Flask gateway that stores the       *)
(* upstream configuration in app.config, probes it (/api/validate),        *)
(* forwards chat turns (/api/chat) and answers file freshness polls        *)
(* (/api/check_file_update) from the module-level dict file_cache.         *)
(*                                                                         *)
(* Flask's development server (app.run, line 406) serves every request on  *)
(* its own thread, so the handlers interleave at each access to the shared *)
(* objects app.config and file_cache.  A handler is therefore one action   *)
(* per shared access, named after the source line of that access.          *)
(***************************************************************************)
EXTENDS Integers, Sequences, FiniteSets, TLC

VARIABLES
    app_config,   \* app.config: the keys DEFAULT_CONFIG sets
    file_cache,   \* file_cache: normalized path -> last stored mtime
    fs,           \* the filesystem: path of a file -> mtime, or NoFile
    dirs,         \* the filesystem: the paths that are directories
    uuid_count,   \* the number of identifiers uuid.uuid4() has handed out
    last_saved,   \* history: what the last save_config that answered 200 asked for
    pc,           \* per request thread: the line it is about to run
    req,          \* per request thread: the request it serves
    loc,          \* per request thread: the handler's local variables
    resp,         \* per request thread: the response to its request, once returned
    outbound      \* per request thread: the upstream calls of the request, in order

vars == <<app_config, file_cache, fs, dirs, uuid_count, last_saved, pc, req, loc, resp, outbound>>

----------------------------------------------------------------------------
(* Bounds *)

MaxMtime == 2

\* The uploads that get as far as a stored name
MaxUploads == 2

\* Two requests in flight at once; the sequential specifications run one.
Threads == {"t1", "t2"}
SeqThreads == {"t1"}

----------------------------------------------------------------------------
(* Values *)

DEFAULT_CONFIG ==
    [api_base      |-> "https://api.deepseek.com/v1",
     api_key       |-> "",
     default_model |-> "deepseek-chat",
     retries       |-> 3]

\* dict.get(key, default)
Get(d, k, default) == IF k \in DOMAIN d THEN d[k] ELSE default

\* d[k] = v on a dict
Put(d, k, v) == [x \in DOMAIN d \cup {k} |-> IF x = k THEN v ELSE d[x]]

\* Python truthiness of a JSON string or None
None == "<None>"
Truthy(v) == v # None /\ v # ""

\* The JSON bodies POSTed to /api/config
ConfigRequests ==
    { [api_base |-> "e1", api_key |-> "k1", default_model |-> "m1"],
      [api_base |-> "e2", api_key |-> "k2", default_model |-> "m2"],
      [api_base |-> "e2", api_key |-> "k2"],
      [api_base |-> "",   api_key |-> "k1", default_model |-> "m1"],
      [api_base |-> "e1", api_key |-> "",   default_model |-> "m1"],
      [default_model |-> "m1"] }

\* The JSON bodies POSTed to /api/chat
ChatRequests ==
    { [message |-> "hello"],
      [message |-> "hello", model |-> "mx"],
      [message |-> ""],
      [model |-> "mx"] }

\* What the upstream does with one HTTP call: the call raises (connection
\* refused, timeout), or it answers with a status code and a body.
ChatBodies == {"choices_ok", "no_choices", "empty_choices", "no_content", "not_json"}
ModelsBodies == {"data_ok", "no_data", "no_id", "not_json"}
ErrorStatus == {401, 503}

Upstream(bodies) ==
    { [raised |-> TRUE, status_code |-> 0, body |-> "-"] }
      \cup { [raised |-> FALSE, status_code |-> 200, body |-> b] : b \in bodies }
      \cup { [raised |-> FALSE, status_code |-> s, body |-> "text"] : s \in ErrorStatus }

\* A call that was sent and has not been answered yet
Pending == [raised |-> FALSE, status_code |-> 0, body |-> "pending"]

\* Paths: a leading "/" or not, and the components between the slashes
Path(abs, parts) == [abs |-> abs, parts |-> parts]
EmptyPath == Path(FALSE, <<>>)

NoFile == -1
NoSaved == [saved |-> FALSE, api_base |-> "", api_key |-> ""]
NoReq == [op |-> "none"]
NoResp == [status |-> 0, kind |-> "none"]
NoLoc ==
    [model |-> "-", api_key |-> "-", api_base |-> "-",
     file_path |-> EmptyPath, current_mtime |-> NoFile, cached_mtime |-> NoFile]

\* jsonify(...), status
Response(status, kind, body) == [status |-> status, kind |-> kind, body |-> body]

----------------------------------------------------------------------------
(* Request threads *)

Idle(t) == pc[t] \in {"idle", "done"}

Begin(t, r, at) ==
    /\ Idle(t)
    /\ req' = [req EXCEPT ![t] = r]
    /\ resp' = [resp EXCEPT ![t] = NoResp]
    /\ outbound' = [outbound EXCEPT ![t] = <<>>]
    /\ pc' = [pc EXCEPT ![t] = at]

Goto(t, at) == pc' = [pc EXCEPT ![t] = at]

\* The handler returns: its locals are gone, the client holds the response.
Return(t, r) ==
    /\ resp' = [resp EXCEPT ![t] = r]
    /\ loc' = [loc EXCEPT ![t] = NoLoc]
    /\ pc' = [pc EXCEPT ![t] = "done"]

Finished(t, op) == pc[t] = "done" /\ req[t].op = op

\* requests.get / requests.post: the call leaves, then its outcome arrives
Send(t, to) == outbound' = [outbound EXCEPT ![t] = Append(@, [to |-> to, answer |-> Pending])]
Receive(t, up) == outbound' = [outbound EXCEPT ![t][Len(outbound[t])].answer = up]

----------------------------------------------------------------------------
(* POST /api/config *)

save_config_request(t) ==
    \E config \in ConfigRequests :
        /\ Begin(t, [op |-> "save_config", json |-> config], "save_config_78")
        /\ UNCHANGED <<uuid_count, dirs, last_saved, app_config, file_cache, fs, loc>>

\* line 78: the two required fields
ConfigMissing(config) ==
    \/ ~Truthy(Get(config, "api_base", None))
    \/ ~Truthy(Get(config, "api_key", None))

\* A variant of save_config_78 that stores the endpoint before it checks
\* the required fields.
save_config_78_store_first(t) ==
    /\ pc[t] = "save_config_78"
    /\ app_config' = [app_config EXCEPT
           !.api_base = Get(req[t].json, "api_base", DEFAULT_CONFIG.api_base)]
    /\ IF ConfigMissing(req[t].json)
       THEN Return(t, Response(400, "config_missing", [status |-> "error"]))
       ELSE Goto(t, "save_config_86") /\ UNCHANGED <<loc, resp>>
    /\ UNCHANGED <<uuid_count, dirs, last_saved, file_cache, fs, req, outbound>>

save_config_78(t) ==
    /\ pc[t] = "save_config_78"
    /\ IF ConfigMissing(req[t].json)
       THEN Return(t, Response(400, "config_missing", [status |-> "error"]))
       ELSE Goto(t, "save_config_85") /\ UNCHANGED <<loc, resp>>
    /\ UNCHANGED <<uuid_count, dirs, last_saved, app_config, file_cache, fs, req, outbound>>

save_config_85(t) ==
    /\ pc[t] = "save_config_85"
    /\ app_config' = [app_config EXCEPT
           !.api_base = Get(req[t].json, "api_base", DEFAULT_CONFIG.api_base)]
    /\ Goto(t, "save_config_86")
    /\ UNCHANGED <<uuid_count, dirs, last_saved, file_cache, fs, req, loc, resp, outbound>>

\* A variant of save_config_86 that does not store the key.
save_config_86_skip(t) ==
    /\ pc[t] = "save_config_86"
    /\ Goto(t, "save_config_87")
    /\ UNCHANGED <<uuid_count, dirs, last_saved, app_config, file_cache, fs, req, loc, resp, outbound>>

save_config_86(t) ==
    /\ pc[t] = "save_config_86"
    /\ app_config' = [app_config EXCEPT
           !.api_key = Get(req[t].json, "api_key", "")]
    /\ Goto(t, "save_config_87")
    /\ UNCHANGED <<uuid_count, dirs, last_saved, file_cache, fs, req, loc, resp, outbound>>

save_config_87(t) ==
    /\ pc[t] = "save_config_87"
    /\ app_config' = [app_config EXCEPT
           !.default_model = Get(req[t].json, "default_model", DEFAULT_CONFIG.default_model)]
    /\ Goto(t, "save_config_93")
    /\ UNCHANGED <<uuid_count, dirs, last_saved, file_cache, fs, req, loc, resp, outbound>>

save_config_93(t) ==
    /\ pc[t] = "save_config_93"
    /\ loc' = [loc EXCEPT ![t].api_base = app_config.api_base]
    /\ Goto(t, "save_config_94")
    /\ UNCHANGED <<uuid_count, dirs, last_saved, app_config, file_cache, fs, req, resp, outbound>>

\* A variant of ConfigSnapshot that echoes the stored key with the rest.
ConfigSnapshotWithKey(api_base, default_model) ==
    [api_base |-> api_base, default_model |-> default_model,
     api_key |-> app_config.api_key]

\* lines 92-95: the "config" object of the success body
ConfigSnapshot(api_base, default_model) ==
    [api_base |-> api_base, default_model |-> default_model]

save_config_94(t) ==
    /\ pc[t] = "save_config_94"
    /\ Return(t, Response(200, "config_saved",
                 [status |-> "success",
                  config |-> ConfigSnapshot(loc[t].api_base, app_config.default_model)]))
    /\ last_saved' = [saved |-> TRUE, api_base |-> req[t].json.api_base,
                                     api_key |-> req[t].json.api_key]
    /\ UNCHANGED <<uuid_count, dirs, app_config, file_cache, fs, req, outbound>>

----------------------------------------------------------------------------
(* GET /api/validate *)

validate_config_request(t) ==
    /\ Begin(t, [op |-> "validate_config"], "validate_config_112")
    /\ UNCHANGED <<uuid_count, dirs, last_saved, app_config, file_cache, fs, loc>>

\* A variant of validate_config_112 without the check of the key.
validate_config_112_unchecked(t) ==
    /\ pc[t] = "validate_config_112"
    /\ Goto(t, "validate_config_120")
    /\ UNCHANGED <<uuid_count, dirs, last_saved, app_config, file_cache, fs, req, loc, resp, outbound>>

validate_config_112(t) ==
    /\ pc[t] = "validate_config_112"
    /\ IF ~Truthy(app_config.api_key)
       THEN Return(t, Response(400, "validate_no_key", [status |-> "error"]))
       ELSE Goto(t, "validate_config_120") /\ UNCHANGED <<loc, resp>>
    /\ UNCHANGED <<uuid_count, dirs, last_saved, app_config, file_cache, fs, req, outbound>>

validate_config_120(t) ==
    /\ pc[t] = "validate_config_120"
    /\ loc' = [loc EXCEPT ![t].api_key = app_config.api_key]
    /\ Goto(t, "validate_config_125")
    /\ UNCHANGED <<uuid_count, dirs, last_saved, app_config, file_cache, fs, req, resp, outbound>>

\* lines 125-129: requests.get(f"{api_base}/models", ...)
validate_config_125(t) ==
    /\ pc[t] = "validate_config_125"
    /\ loc' = [loc EXCEPT ![t].api_base = app_config.api_base]
    /\ Send(t, "models")
    /\ Goto(t, "validate_config_131")
    /\ UNCHANGED <<uuid_count, dirs, last_saved, app_config, file_cache, fs, req, resp>>

\* lines 131-154: what the handler returns for the upstream's answer
ValidateResponse(up) ==
    IF up.raised
    THEN Response(500, "validate_exception", [status |-> "error", exc |-> "RequestException"])
    ELSE IF up.status_code = 200
    THEN CASE up.body = "data_ok"  -> Response(200, "validate_success", [status |-> "success", models |-> <<"id1">>])
           [] up.body = "no_data"  -> Response(200, "validate_success", [status |-> "success", models |-> <<>>])
           [] up.body = "no_id"    -> Response(500, "validate_exception", [status |-> "error", exc |-> "KeyError"])
           [] OTHER                -> Response(500, "validate_exception", [status |-> "error", exc |-> "JSONDecodeError"])
    ELSE Response(400, "validate_failed", [status |-> "error", status_code |-> up.status_code])

validate_config_131(t) ==
    /\ pc[t] = "validate_config_131"
    /\ \E up \in Upstream(ModelsBodies) :
          /\ Receive(t, up)
          /\ Return(t, ValidateResponse(up))
    /\ UNCHANGED <<uuid_count, dirs, last_saved, app_config, file_cache, fs, req>>

----------------------------------------------------------------------------
(* POST /api/chat *)

chat_request(t) ==
    \E data \in ChatRequests :
        /\ Begin(t, [op |-> "chat", json |-> data], "chat_160")
        /\ UNCHANGED <<uuid_count, dirs, last_saved, app_config, file_cache, fs, loc>>

\* lines 160-167.  message[:50] is taken for the log line of line 164,
\* before the check of line 166: without "message" it raises TypeError,
\* which the handler of line 219 turns into the response of line 222.
ChatPrecheck(message) ==
    IF message = None
    THEN Response(500, "chat_exception", [status |-> "error", exc |-> "TypeError"])
    ELSE IF ~Truthy(message)
    THEN Response(400, "chat_empty_message", [status |-> "error"])
    ELSE NoResp

chat_160(t) ==
    /\ pc[t] = "chat_160"
    /\ LET early == ChatPrecheck(Get(req[t].json, "message", None))
       IN  IF early # NoResp
           THEN Return(t, early)
           ELSE /\ loc' = [loc EXCEPT
                       ![t].model = Get(req[t].json, "model", app_config.default_model)]
                /\ Goto(t, "chat_171")
                /\ UNCHANGED resp
    /\ UNCHANGED <<uuid_count, dirs, last_saved, app_config, file_cache, fs, req, outbound>>

chat_171(t) ==
    /\ pc[t] = "chat_171"
    /\ loc' = [loc EXCEPT ![t].api_key = app_config.api_key]
    /\ Goto(t, "chat_187")
    /\ UNCHANGED <<uuid_count, dirs, last_saved, app_config, file_cache, fs, req, resp, outbound>>

\* lines 187-192: requests.post(f"{api_base}/chat/completions", ...)
chat_187(t) ==
    /\ pc[t] = "chat_187"
    /\ loc' = [loc EXCEPT ![t].api_base = app_config.api_base]
    /\ Send(t, "chat/completions")
    /\ Goto(t, "chat_194")
    /\ UNCHANGED <<uuid_count, dirs, last_saved, app_config, file_cache, fs, req, resp>>

\* A variant of ChatResponse that answers an upstream HTTP error with 400,
\* as validate_config does at line 146, instead of the upstream's status.
ChatResponseFixedStatus(up) ==
    IF up.raised
    THEN Response(500, "chat_exception", [status |-> "error", exc |-> "RequestException"])
    ELSE IF up.status_code = 200
    THEN CASE up.body = "choices_ok"    -> Response(200, "chat_success", [status |-> "success", response |-> "content"])
           [] up.body = "no_choices"    -> Response(500, "chat_no_content", [status |-> "error"])
           [] up.body = "empty_choices" -> Response(500, "chat_no_content", [status |-> "error"])
           [] up.body = "no_content"    -> Response(500, "chat_exception", [status |-> "error", exc |-> "KeyError"])
           [] OTHER                     -> Response(500, "chat_exception", [status |-> "error", exc |-> "JSONDecodeError"])
    ELSE Response(400, "chat_api_failed", [status |-> "error", status_code |-> up.status_code])

\* lines 194-225: what the handler returns for the upstream's answer
ChatResponse(up) ==
    IF up.raised
    THEN Response(500, "chat_exception", [status |-> "error", exc |-> "RequestException"])
    ELSE IF up.status_code = 200
    THEN CASE up.body = "choices_ok"    -> Response(200, "chat_success", [status |-> "success", response |-> "content"])
           [] up.body = "no_choices"    -> Response(500, "chat_no_content", [status |-> "error"])
           [] up.body = "empty_choices" -> Response(500, "chat_no_content", [status |-> "error"])
           [] up.body = "no_content"    -> Response(500, "chat_exception", [status |-> "error", exc |-> "KeyError"])
           [] OTHER                     -> Response(500, "chat_exception", [status |-> "error", exc |-> "JSONDecodeError"])
    ELSE Response(up.status_code, "chat_api_failed", [status |-> "error", status_code |-> up.status_code])

\* lines 194-225: requests.post has returned or raised.  Line 187 is in no
\* loop and no Session with a Retry adapter is mounted (the imports of
\* lines 10-11 are unused), so the handler returns after this one call.
chat_194(t) ==
    /\ pc[t] = "chat_194"
    /\ \E up \in Upstream(ChatBodies) :
          /\ Receive(t, up)
          /\ Return(t, ChatResponse(up))
    /\ UNCHANGED <<uuid_count, dirs, last_saved, app_config, file_cache, fs, req>>

----------------------------------------------------------------------------
(* POST /api/check_file_update *)

cwd == Path(TRUE, <<"app">>)

\* The file_path values sent by clients
RawPaths ==
    { EmptyPath,
      Path(FALSE, <<"img.png">>),
      Path(FALSE, <<".", "img.png">>),
      Path(TRUE,  <<"app", "img.png">>),
      Path(TRUE,  <<"app", "x", "..", "img.png">>),
      Path(FALSE, <<"..", "app", "b.png">>),
      Path(TRUE,  <<"app", "b.png">>) }

\* os.path.isabs
isabs(p) == p.abs

\* os.path.join(a, b)
join(a, b) == IF isabs(b) THEN b ELSE Path(a.abs, a.parts \o b.parts)

\* os.path.normpath: the loop over the components
RECURSIVE NormParts(_, _, _)
NormParts(abs, parts, new) ==
    IF parts = <<>> THEN new
    ELSE LET comp == Head(parts)
             rest == Tail(parts)
         IN  IF comp \in {"", "."}
             THEN NormParts(abs, rest, new)
             ELSE IF \/ comp # ".."
                     \/ (~abs /\ new = <<>>)
                     \/ (new # <<>> /\ new[Len(new)] = "..")
             THEN NormParts(abs, rest, Append(new, comp))
             ELSE IF new # <<>>
             THEN NormParts(abs, rest, SubSeq(new, 1, Len(new) - 1))
             ELSE NormParts(abs, rest, new)

normpath(p) ==
    LET new == NormParts(p.abs, p.parts, <<>>)
    IN  IF ~p.abs /\ new = <<>> THEN Path(FALSE, <<".">>) ELSE Path(p.abs, new)

\* A variant of ResolvePath that forgets the working directory.
ResolvePathNoJoin(file_path) == normpath(file_path)

\* lines 239-244
ResolvePath(file_path) ==
    normpath(IF isabs(file_path) THEN file_path ELSE join(cwd, file_path))

\* The files that exist or may come to exist
FilePaths == { ResolvePath(p) : p \in RawPaths \ {EmptyPath} }

\* os.path.isfile, os.path.isdir, os.path.exists
isfile(p) == p \in DOMAIN fs /\ fs[p] # NoFile
isdir(p) == p \in dirs
exists(p) == isfile(p) \/ isdir(p)

check_file_update_request(t) ==
    \E file_path \in RawPaths :
        /\ Begin(t, [op |-> "check_file_update", file_path |-> file_path], "check_file_update_235")
        /\ UNCHANGED <<uuid_count, dirs, last_saved, app_config, file_cache, fs, loc>>

\* lines 235-249
check_file_update_235(t) ==
    /\ pc[t] = "check_file_update_235"
    /\ IF req[t].file_path = EmptyPath
       THEN Return(t, Response(200, "check_no_path", [updated |-> FALSE]))
       ELSE IF ~exists(ResolvePath(req[t].file_path))
       THEN Return(t, Response(200, "check_not_found", [updated |-> FALSE]))
       ELSE /\ loc' = [loc EXCEPT ![t].file_path = ResolvePath(req[t].file_path)]
            /\ Goto(t, "check_file_update_252")
            /\ UNCHANGED resp
    /\ UNCHANGED <<uuid_count, dirs, last_saved, app_config, file_cache, fs, req, outbound>>

\* line 252: os.path.getmtime
check_file_update_252(t) ==
    /\ pc[t] = "check_file_update_252"
    /\ loc' = [loc EXCEPT ![t].current_mtime = fs[loc[t].file_path]]
    /\ Goto(t, "check_file_update_255")
    /\ UNCHANGED <<uuid_count, dirs, last_saved, app_config, file_cache, fs, req, resp, outbound>>

\* line 255: file_cache.get(file_path, 0)
check_file_update_255(t) ==
    /\ pc[t] = "check_file_update_255"
    /\ loc' = [loc EXCEPT ![t].cached_mtime = Get(file_cache, loc[t].file_path, 0)]
    /\ Goto(t, "check_file_update_257")
    /\ UNCHANGED <<uuid_count, dirs, last_saved, app_config, file_cache, fs, req, resp, outbound>>

\* A variant of IsNewer that also takes an equal time for a newer one.
IsNewerOrEqual(current_mtime, cached_mtime) == current_mtime >= cached_mtime

\* line 257
IsNewer(current_mtime, cached_mtime) == current_mtime > cached_mtime

\* A variant of CompareAndStore that answers an unchanged file with the
\* cached time instead of the file's.
CompareAndStoreCached(cache, file_path, current_mtime, cached_mtime) ==
    IF IsNewer(current_mtime, cached_mtime)
    THEN [cache |-> Put(cache, file_path, current_mtime),
          resp  |-> Response(200, "check_updated", [updated |-> TRUE, mtime |-> current_mtime])]
    ELSE [cache |-> cache,
          resp  |-> Response(200, "check_unchanged", [updated |-> FALSE, mtime |-> cached_mtime])]

\* lines 257-262: the cache after the handler's last lines, and its response
CompareAndStore(cache, file_path, current_mtime, cached_mtime) ==
    IF IsNewer(current_mtime, cached_mtime)
    THEN [cache |-> Put(cache, file_path, current_mtime),
          resp  |-> Response(200, "check_updated", [updated |-> TRUE, mtime |-> current_mtime])]
    ELSE [cache |-> cache,
          resp  |-> Response(200, "check_unchanged", [updated |-> FALSE, mtime |-> current_mtime])]

check_file_update_257(t) ==
    /\ pc[t] = "check_file_update_257"
    /\ LET out == CompareAndStore(file_cache, loc[t].file_path,
                                  loc[t].current_mtime, loc[t].cached_mtime)
       IN  /\ file_cache' = out.cache
           /\ Return(t, out.resp)
    /\ UNCHANGED <<uuid_count, dirs, last_saved, app_config, fs, req, outbound>>

\* Outside the server: a file is written or touched.  Its modification
\* time moves forward; a new file may carry any time, the epoch included.
FileModified ==
    \E p \in FilePaths, m \in 0..MaxMtime :
        /\ m > Get(fs, p, NoFile)
        /\ fs' = Put(fs, p, m)
        /\ UNCHANGED <<uuid_count, dirs, last_saved, app_config, file_cache, pc, req, loc, resp, outbound>>

\* Outside the server: a file gets an older modification time (a restored
\* backup, touch -d, a clock that was set back).
FileSetBack ==
    \E p \in FilePaths, m \in 0..MaxMtime :
        /\ isfile(p)
        /\ m < fs[p]
        /\ fs' = Put(fs, p, m)
        /\ UNCHANGED <<uuid_count, dirs, last_saved, app_config, file_cache, pc, req, loc, resp, outbound>>

----------------------------------------------------------------------------
(* File names and extensions *)

\* The characters of the file names in use
Chars ==
    "img.png"   :> <<"i", "m", "g", ".", "p", "n", "g">> @@
    "b.png"     :> <<"b", ".", "p", "n", "g">> @@
    "PHOTO.JPG" :> <<"P", "H", "O", "T", "O", ".", "J", "P", "G">> @@
    "logo.svg"  :> <<"l", "o", "g", "o", ".", "s", "v", "g">> @@
    "notes.txt" :> <<"n", "o", "t", "e", "s", ".", "t", "x", "t">> @@
    "x.exe"     :> <<"x", ".", "e", "x", "e">> @@
    ".png"      :> <<".", "p", "n", "g">> @@
    "pics"      :> <<"p", "i", "c", "s">> @@
    "d"         :> <<"d">> @@
    "x"         :> <<"x">> @@
    "app"       :> <<"a", "p", "p">> @@
    "."         :> <<".">> @@
    ".."        :> <<".", ".">> @@
    ""          :> <<>>

\* The characters of a path or of a client's file name: its components
\* joined by the separator
RECURSIVE JoinChars(_)
JoinChars(parts) ==
    IF parts = <<>> THEN <<>>
    ELSE IF Len(parts) = 1 THEN Chars[parts[1]]
    ELSE Chars[parts[1]] \o <<"/">> \o JoinChars(Tail(parts))

PathChars(p) == (IF p.abs THEN <<"/">> ELSE <<>>) \o JoinChars(p.parts)

\* str.rfind: the last position of c in s, 0 when there is none
rfind(s, c) ==
    LET at == { i \in 1..Len(s) : s[i] = c }
    IN  IF at = {} THEN 0 ELSE CHOOSE i \in at : \A j \in at : j <= i

\* os.path.splitext(s)[1]: the text from the last dot of the last
\* component, unless that component has nothing but dots before it
splitext_1(s) ==
    LET sepIndex == rfind(s, "/")
        dotIndex == rfind(s, ".")
    IN  IF /\ dotIndex > sepIndex
           /\ \E i \in (sepIndex + 1)..(dotIndex - 1) : s[i] # "."
        THEN SubSeq(s, dotIndex, Len(s))
        ELSE <<>>

\* str.lower
UpperCase ==
    <<"A", "B", "C", "D", "E", "F", "G", "H", "I", "J", "K", "L", "M",
      "N", "O", "P", "Q", "R", "S", "T", "U", "V", "W", "X", "Y", "Z">>
LowerCase ==
    <<"a", "b", "c", "d", "e", "f", "g", "h", "i", "j", "k", "l", "m",
      "n", "o", "p", "q", "r", "s", "t", "u", "v", "w", "x", "y", "z">>

lower_char(c) ==
    IF \E i \in 1..26 : UpperCase[i] = c
    THEN LowerCase[CHOOSE i \in 1..26 : UpperCase[i] = c]
    ELSE c

lower(s) == [i \in 1..Len(s) |-> lower_char(s[i])]

\* The string of a sequence of characters
RECURSIVE Str(_)
Str(s) == IF s = <<>> THEN "" ELSE Head(s) \o Str(Tail(s))

\* os.path.splitext(...)[1].lower()
FileExt(s) == Str(lower(splitext_1(s)))

\* os.path.dirname of a path with at least one component
dirname(p) == Path(p.abs, SubSeq(p.parts, 1, Len(p.parts) - 1))

\* The path the operating system resolves p to (no symbolic links)
Resolved(p) == normpath(join(cwd, p))

\* The time a write stamps on a file: no earlier than any time on disk
now ==
    LET times == {0} \cup { fs[p] : p \in DOMAIN fs }
    IN  CHOOSE m \in times : \A n \in times : n <= m

\* os.makedirs(p, exist_ok=True): the directories named by the prefixes of p
Prefixes(p) == { Resolved(Path(p.abs, SubSeq(p.parts, 1, k))) : k \in 0..Len(p.parts) }
makedirs_fails(p) == \E d \in Prefixes(p) : isfile(d)

----------------------------------------------------------------------------
(* GET /api/serve_image *)

\* The path values sent by clients
ServePaths ==
    { EmptyPath,
      Path(FALSE, <<"img.png">>),
      Path(TRUE,  <<"app", "x", "..", "PHOTO.JPG">>),
      Path(FALSE, <<"logo.svg">>),
      Path(FALSE, <<"notes.txt">>),
      Path(FALSE, <<".png">>),
      Path(FALSE, <<"pics">>) }

ServeTargets == { ResolvePath(p) : p \in ServePaths \ {EmptyPath} }

\* line 297
serve_allowed_extensions == {".png", ".jpg", ".jpeg", ".gif", ".bmp", ".webp", ".svg"}

serve_image_request(t) ==
    \E path \in ServePaths :
        /\ Begin(t, [op |-> "serve_image", path |-> path], "serve_image_272")
        /\ UNCHANGED <<uuid_count, dirs, last_saved, app_config, file_cache, fs, loc>>

\* A variant of serve_image_272 that looks at the extension before it looks
\* for the file.
serve_image_272_ext_first(t) ==
    /\ pc[t] = "serve_image_272"
    /\ IF req[t].path = EmptyPath
       THEN Return(t, Response(400, "serve_no_path", [error |-> "Path parameter is required"]))
       ELSE IF FileExt(PathChars(ResolvePath(req[t].path))) \notin serve_allowed_extensions
       THEN Return(t, Response(400, "serve_unsupported", [error |-> "Unsupported image format"]))
       ELSE IF ~exists(ResolvePath(req[t].path))
       THEN Return(t, Response(404, "serve_not_found", [error |-> "File not found"]))
       ELSE /\ loc' = [loc EXCEPT ![t].file_path = ResolvePath(req[t].path)]
            /\ Goto(t, "serve_image_292")
            /\ UNCHANGED resp
    /\ UNCHANGED <<uuid_count, dirs, last_saved, app_config, file_cache, fs, req, outbound>>

\* lines 272-290
serve_image_272(t) ==
    /\ pc[t] = "serve_image_272"
    /\ IF req[t].path = EmptyPath
       THEN Return(t, Response(400, "serve_no_path", [error |-> "Path parameter is required"]))
       ELSE IF ~exists(ResolvePath(req[t].path))
       THEN Return(t, Response(404, "serve_not_found", [error |-> "File not found"]))
       ELSE /\ loc' = [loc EXCEPT ![t].file_path = ResolvePath(req[t].path)]
            /\ Goto(t, "serve_image_292")
            /\ UNCHANGED resp
    /\ UNCHANGED <<uuid_count, dirs, last_saved, app_config, file_cache, fs, req, outbound>>

\* lines 292-301
serve_image_292(t) ==
    /\ pc[t] = "serve_image_292"
    /\ IF ~isfile(loc[t].file_path)
       THEN Return(t, Response(400, "serve_not_file", [error |-> "Path is not a file"]))
       ELSE IF FileExt(PathChars(loc[t].file_path)) \notin serve_allowed_extensions
       THEN Return(t, Response(400, "serve_unsupported", [error |-> "Unsupported image format"]))
       ELSE Goto(t, "serve_image_304") /\ UNCHANGED <<loc, resp>>
    /\ UNCHANGED <<uuid_count, dirs, last_saved, app_config, file_cache, fs, req, outbound>>

\* line 304: send_file opens the file; lines 306-308 when it cannot
serve_image_304(t) ==
    /\ pc[t] = "serve_image_304"
    /\ IF isfile(loc[t].file_path)
       THEN Return(t, Response(200, "serve_file", [file |-> loc[t].file_path]))
       ELSE Return(t, Response(500, "serve_exception", [error |-> "FileNotFoundError"]))
    /\ UNCHANGED <<uuid_count, dirs, last_saved, app_config, file_cache, fs, req, outbound>>

\* Outside the server: a file or a directory appears at a path clients ask for
AssetCreated ==
    \E p \in ServeTargets :
        /\ ~exists(p)
        /\ \/ fs' = Put(fs, p, 0) /\ UNCHANGED dirs
           \/ dirs' = dirs \cup {p} /\ UNCHANGED fs
        /\ UNCHANGED <<uuid_count, last_saved, app_config, file_cache, pc, req, loc, resp, outbound>>

\* Outside the server: a file or a directory clients ask for is removed
AssetRemoved ==
    \E p \in ServeTargets :
        /\ exists(p)
        /\ fs' = [q \in DOMAIN fs |-> IF q = p THEN NoFile ELSE fs[q]]
        /\ dirs' = dirs \ {p}
        /\ UNCHANGED <<uuid_count, last_saved, app_config, file_cache, pc, req, loc, resp, outbound>>

----------------------------------------------------------------------------
(* POST /api/upload_image *)

\* request.files has no 'file' part
NoUpload == <<"<no file>">>

\* file.filename as the client sent it, by components; <<>> is ''
UploadNames ==
    { NoUpload,
      <<>>,
      <<"PHOTO.JPG">>,
      <<"x.exe">>,
      <<"logo.svg">>,
      <<"d", "PHOTO.JPG">> }

\* line 322
upload_allowed_extensions == {".png", ".jpg", ".jpeg", ".gif", ".bmp", ".webp"}

\* line 328
upload_dir == Path(FALSE, <<"uploaded_images">>)

\* lines 333-334: f"{uuid.uuid4().hex}_{file.filename}" under upload_dir
UniquePath(u, filename) ==
    join(upload_dir, Path(FALSE, <<ToString(u) \o "_" \o Head(filename)>> \o Tail(filename)))

upload_image_request(t) ==
    \E filename \in UploadNames :
        /\ Begin(t, [op |-> "upload_image", filename |-> filename], "upload_image_314")
        /\ UNCHANGED <<uuid_count, dirs, last_saved, app_config, file_cache, fs, loc>>

\* A variant of upload_image_314 that creates the upload directory before it
\* checks the file type.
upload_image_314_makedirs_first(t) ==
    /\ pc[t] = "upload_image_314"
    /\ dirs' = IF req[t].filename \in {NoUpload, <<>>} \/ makedirs_fails(upload_dir)
               THEN dirs ELSE dirs \cup Prefixes(upload_dir)
    /\ IF req[t].filename = NoUpload
       THEN Return(t, Response(200, "upload_no_file", [success |-> FALSE]))
       ELSE IF req[t].filename = <<>>
       THEN Return(t, Response(200, "upload_no_name", [success |-> FALSE]))
       ELSE IF FileExt(JoinChars(req[t].filename)) \notin upload_allowed_extensions
       THEN Return(t, Response(200, "upload_unsupported", [success |-> FALSE]))
       ELSE Goto(t, "upload_image_329") /\ UNCHANGED <<loc, resp>>
    /\ UNCHANGED <<uuid_count, last_saved, app_config, file_cache, fs, req, outbound>>

\* lines 314-325
upload_image_314(t) ==
    /\ pc[t] = "upload_image_314"
    /\ IF req[t].filename = NoUpload
       THEN Return(t, Response(200, "upload_no_file", [success |-> FALSE]))
       ELSE IF req[t].filename = <<>>
       THEN Return(t, Response(200, "upload_no_name", [success |-> FALSE]))
       ELSE IF FileExt(JoinChars(req[t].filename)) \notin upload_allowed_extensions
       THEN Return(t, Response(200, "upload_unsupported", [success |-> FALSE]))
       ELSE Goto(t, "upload_image_329") /\ UNCHANGED <<loc, resp>>
    /\ UNCHANGED <<uuid_count, dirs, last_saved, app_config, file_cache, fs, req, outbound>>

\* lines 328-329: os.makedirs(upload_dir, exist_ok=True)
upload_image_329(t) ==
    /\ pc[t] = "upload_image_329"
    /\ IF makedirs_fails(upload_dir)
       THEN /\ Return(t, Response(200, "upload_exception", [success |-> FALSE]))
            /\ UNCHANGED dirs
       ELSE /\ dirs' = dirs \cup Prefixes(upload_dir)
            /\ Goto(t, "upload_image_333")
            /\ UNCHANGED <<loc, resp>>
    /\ UNCHANGED <<uuid_count, last_saved, app_config, file_cache, fs, req, outbound>>

\* lines 332-337: a fresh identifier, then file.save opens the target
upload_image_333(t) ==
    /\ pc[t] = "upload_image_333"
    /\ uuid_count < MaxUploads
    /\ uuid_count' = uuid_count + 1
    /\ LET file_path == UniquePath(uuid_count + 1, req[t].filename)
       IN  IF ~isdir(Resolved(dirname(file_path))) \/ isdir(Resolved(file_path))
           THEN /\ Return(t, Response(200, "upload_exception", [success |-> FALSE]))
                /\ UNCHANGED fs
           ELSE /\ fs' = Put(fs, Resolved(file_path), now)
                /\ loc' = [loc EXCEPT ![t].file_path = file_path]
                /\ Goto(t, "upload_image_337")
                /\ UNCHANGED resp
    /\ UNCHANGED <<dirs, last_saved, app_config, file_cache, req, outbound>>

\* line 337: file.save writes the bytes and closes the target
upload_image_337(t) ==
    /\ pc[t] = "upload_image_337"
    /\ fs' = Put(fs, Resolved(loc[t].file_path), now)
    /\ Goto(t, "upload_image_340")
    /\ UNCHANGED <<uuid_count, dirs, last_saved, app_config, file_cache, req, loc, resp, outbound>>

\* lines 340-361: os.path.getsize, the optional size of the image, the answer
upload_image_340(t) ==
    /\ pc[t] = "upload_image_340"
    /\ IF isfile(Resolved(loc[t].file_path))
       THEN Return(t, Response(200, "upload_ok", [success |-> TRUE, file_path |-> loc[t].file_path]))
       ELSE Return(t, Response(200, "upload_exception", [success |-> FALSE]))
    /\ UNCHANGED <<uuid_count, dirs, last_saved, app_config, file_cache, fs, req, outbound>>

----------------------------------------------------------------------------
(* POST /api/update_test_image *)

\* request.get_json() of a request without a JSON body
NoJson == [no_json |-> TRUE]

\* The JSON bodies sent by clients
UpdateRequests ==
    { NoJson,
      [color |-> "red"],
      [file_path |-> Path(FALSE, <<"img.png">>)],
      [file_path |-> Path(TRUE, <<"app", "img.png">>), color |-> "blue"],
      [file_path |-> Path(FALSE, <<"pics", "b.png">>), color |-> "red"],
      [file_path |-> Path(FALSE, <<"b.png">>), color |-> "no such color"] }

\* The names PIL's ImageColor knows, as far as clients use them
Colors == {"red", "blue"}

update_test_image_request(t) ==
    \E json \in UpdateRequests :
        /\ Begin(t, [op |-> "update_test_image", json |-> json], "update_test_image_371")
        /\ UNCHANGED <<uuid_count, dirs, last_saved, app_config, file_cache, fs, loc>>

\* lines 371-380
update_test_image_371(t) ==
    /\ pc[t] = "update_test_image_371"
    /\ IF req[t].json = NoJson
       THEN Return(t, Response(200, "update_exception", [success |-> FALSE]))
       ELSE IF Get(req[t].json, "file_path", EmptyPath) = EmptyPath
       THEN Return(t, Response(200, "update_no_path", [success |-> FALSE]))
       ELSE /\ loc' = [loc EXCEPT ![t].file_path =
                          IF isabs(req[t].json.file_path)
                          THEN req[t].json.file_path
                          ELSE join(cwd, req[t].json.file_path)]
            /\ Goto(t, "update_test_image_383")
            /\ UNCHANGED resp
    /\ UNCHANGED <<uuid_count, dirs, last_saved, app_config, file_cache, fs, req, outbound>>

\* line 383: os.makedirs(os.path.dirname(file_path), exist_ok=True)
update_test_image_383(t) ==
    /\ pc[t] = "update_test_image_383"
    /\ IF makedirs_fails(dirname(loc[t].file_path))
       THEN /\ Return(t, Response(200, "update_exception", [success |-> FALSE]))
            /\ UNCHANGED dirs
       ELSE /\ dirs' = dirs \cup Prefixes(dirname(loc[t].file_path))
            /\ Goto(t, "update_test_image_386")
            /\ UNCHANGED <<loc, resp>>
    /\ UNCHANGED <<uuid_count, last_saved, app_config, file_cache, fs, req, outbound>>

\* lines 386-389: import PIL, Image.new, then img.save opens the target
update_test_image_386(t) ==
    /\ pc[t] = "update_test_image_386"
    /\ \/ /\ Return(t, Response(200, "update_no_pil", [success |-> FALSE]))
          /\ UNCHANGED fs
       \/ IF \/ Get(req[t].json, "color", "red") \notin Colors
             \/ isdir(Resolved(loc[t].file_path))
             \/ ~isdir(Resolved(dirname(loc[t].file_path)))
          THEN /\ Return(t, Response(200, "update_exception", [success |-> FALSE]))
               /\ UNCHANGED fs
          ELSE /\ fs' = Put(fs, Resolved(loc[t].file_path), now)
               /\ Goto(t, "update_test_image_389")
               /\ UNCHANGED <<loc, resp>>
    /\ UNCHANGED <<uuid_count, dirs, last_saved, app_config, file_cache, req, outbound>>

\* line 389: img.save writes the image and closes the target
update_test_image_389(t) ==
    /\ pc[t] = "update_test_image_389"
    /\ fs' = Put(fs, Resolved(loc[t].file_path), now)
    /\ Return(t, Response(200, "update_ok", [success |-> TRUE]))
    /\ UNCHANGED <<uuid_count, dirs, last_saved, app_config, file_cache, req, outbound>>

----------------------------------------------------------------------------
(* Specifications *)

Init ==
    /\ app_config = DEFAULT_CONFIG
    /\ file_cache = <<>>
    /\ fs = [p \in FilePaths \cup ServeTargets |-> NoFile]
    /\ dirs = {Path(TRUE, <<>>), cwd}
    /\ uuid_count = 0
    /\ last_saved = NoSaved
    /\ pc = [t \in Threads |-> "idle"]
    /\ req = [t \in Threads |-> NoReq]
    /\ loc = [t \in Threads |-> NoLoc]
    /\ resp = [t \in Threads |-> NoResp]
    /\ outbound = [t \in Threads |-> <<>>]

ConfigStep(t) ==
    \/ save_config_request(t)
    \/ save_config_78(t)
    \/ save_config_85(t)
    \/ save_config_86(t)
    \/ save_config_87(t)
    \/ save_config_93(t)
    \/ save_config_94(t)

ValidateStep(t) ==
    \/ validate_config_request(t)
    \/ validate_config_112(t)
    \/ validate_config_120(t)
    \/ validate_config_125(t)
    \/ validate_config_131(t)

ChatStep(t) ==
    \/ chat_request(t)
    \/ chat_160(t)
    \/ chat_171(t)
    \/ chat_187(t)
    \/ chat_194(t)

CheckStep(t) ==
    \/ check_file_update_request(t)
    \/ check_file_update_235(t)
    \/ check_file_update_252(t)
    \/ check_file_update_255(t)
    \/ check_file_update_257(t)

GatewayStep(t) == ConfigStep(t) \/ ValidateStep(t) \/ ChatStep(t)

\* The gateway handlers, two requests at a time
NextGateway == \E t \in Threads : GatewayStep(t)
SpecGateway == Init /\ [][NextGateway]_vars

\* The gateway handlers, one request at a time
NextGatewaySeq == \E t \in SeqThreads : GatewayStep(t)
SpecGatewaySeq == Init /\ [][NextGatewaySeq]_vars

\* The freshness polls, two at a time, while files change
NextFresh == FileModified \/ \E t \in Threads : CheckStep(t)
SpecFresh == Init /\ [][NextFresh]_vars

\* The freshness polls, one at a time, while files change
NextFreshSeq == FileModified \/ \E t \in SeqThreads : CheckStep(t)
SpecFreshSeq == Init /\ [][NextFreshSeq]_vars

\* The freshness polls, one at a time, while file times move either way
NextFreshBack == FileModified \/ FileSetBack \/ \E t \in SeqThreads : CheckStep(t)
SpecFreshBack == Init /\ [][NextFreshBack]_vars

ServeStep(t) ==
    \/ serve_image_request(t)
    \/ serve_image_272(t)
    \/ serve_image_292(t)
    \/ serve_image_304(t)

\* serve_image requests, one at a time, while files come and go
NextServe ==
    \/ AssetCreated
    \/ AssetRemoved
    \/ \E t \in SeqThreads : ServeStep(t)

SpecServe == Init /\ [][NextServe]_vars

UploadStep(t) ==
    \/ upload_image_request(t)
    \/ upload_image_314(t)
    \/ upload_image_329(t)
    \/ upload_image_333(t)
    \/ upload_image_337(t)
    \/ upload_image_340(t)

UpdateStep(t) ==
    \/ update_test_image_request(t)
    \/ update_test_image_371(t)
    \/ update_test_image_383(t)
    \/ update_test_image_386(t)
    \/ update_test_image_389(t)

\* ImageAssetService's writers: upload_image and update_test_image requests
NextAssets == \E t \in Threads : UploadStep(t) \/ UpdateStep(t)
SpecAssets == Init /\ [][NextAssets]_vars

----------------------------------------------------------------------------
(* Claims *)

FirstAnswer(t) == outbound[t][1].answer
Attempts(t) == Len(outbound[t])
HttpError(up) == ~up.raised /\ up.status_code \notin {0, 200}

\* C1: a chat request is sent again after each transport failure until an
\* attempt does not fail at transport level or retries attempts were made:
\* every attempt before the last one failed at transport level, and a
\* request whose last attempt failed at transport level made retries attempts.
C1_RetryBound ==
    \A t \in Threads :
        (Finished(t, "chat") /\ outbound[t] # <<>>) =>
            /\ \A i \in 1..(Attempts(t) - 1) : outbound[t][i].answer.raised
            /\ outbound[t][Attempts(t)].answer.raised => Attempts(t) = app_config.retries

\* C2: when the upstream answers the first attempt of a chat request with a
\* non-200 status s, the request made exactly one attempt and its response
\* carries the status s.
C2_HttpErrorNotRetried ==
    \A t \in Threads :
        (req[t].op = "chat" /\ outbound[t] # <<>> /\ HttpError(FirstAnswer(t))) =>
            /\ Attempts(t) = 1
            /\ pc[t] = "done"
            /\ resp[t].status = FirstAnswer(t).status_code

C2_Witness ==
    \E t \in Threads :
        /\ Finished(t, "chat")
        /\ Attempts(t) = 1
        /\ FirstAnswer(t).status_code = 401
        /\ resp[t].status = 401

\* The configurations an atomic replacement can install: the defaults, and
\* what lines 85-87 store for each accepted request.
Versions ==
    { [api_base |-> DEFAULT_CONFIG.api_base, api_key |-> DEFAULT_CONFIG.api_key,
       default_model |-> DEFAULT_CONFIG.default_model] }
    \cup { [api_base |-> c.api_base, api_key |-> c.api_key,
            default_model |-> Get(c, "default_model", DEFAULT_CONFIG.default_model)] :
           c \in { r \in ConfigRequests : ~ConfigMissing(r) } }

\* C3: the endpoint, the key and (when the request names none) the model a
\* validate or chat call sends upstream all come from one configuration
\* version.
C3_ReaderSeesOneVersion ==
    \A t \in Threads :
        /\ pc[t] = "chat_194" =>
              \E v \in Versions :
                  /\ v.api_base = loc[t].api_base
                  /\ v.api_key = loc[t].api_key
                  /\ "model" \in DOMAIN req[t].json \/ v.default_model = loc[t].model
        /\ pc[t] = "validate_config_131" =>
              \E v \in Versions :
                  /\ v.api_base = loc[t].api_base
                  /\ v.api_key = loc[t].api_key

Cached(cache, p) == Get(cache, p, 0)

\* C4: for every path, the cached modification time never decreases, under
\* any interleaving of polls, while modification times only move forward.
C4_CacheNeverDecreases ==
    [][\A p \in FilePaths : Cached(file_cache', p) >= Cached(file_cache, p)]_vars

\* C5: once a poll of an existing file has returned its modification time
\* and while the file keeps that time, a further poll of the path reports
\* updated=false with the same time and leaves the cache as it is.
C5_Idempotent ==
    \A t \in Threads :
        LET p == ResolvePath(req[t].file_path)
            again == CompareAndStore(file_cache, p, fs[p], Get(file_cache, p, 0))
        IN  ( /\ Finished(t, "check_file_update")
              /\ resp[t].kind \in {"check_updated", "check_unchanged"}
              /\ fs[p] = resp[t].body.mtime ) =>
                /\ again.resp.body.updated = FALSE
                /\ again.resp.body.mtime = resp[t].body.mtime
                /\ again.cache = file_cache

C5_Witness ==
    \E t \in Threads :
        LET p == ResolvePath(req[t].file_path)
        IN  /\ Finished(t, "check_file_update")
            /\ resp[t].kind = "check_unchanged"
            /\ p \in DOMAIN file_cache
            /\ file_cache[p] = fs[p]
            /\ resp[t].body.mtime = fs[p]

\* C6: a validate call makes at most one upstream call, and none while the
\* stored key is empty: it then answers 400, key not configured.
C6_ValidateNoKeyNoCall ==
    \A t \in Threads :
        req[t].op = "validate_config" =>
            /\ Attempts(t) <= 1
            /\ app_config.api_key = "" =>
                  /\ outbound[t] = <<>>
                  /\ pc[t] = "done" =>
                        resp[t].status = 400 /\ resp[t].kind = "validate_no_key"

C6_Witness ==
    \E t \in Threads :
        /\ Finished(t, "validate_config")
        /\ app_config.api_key = ""
        /\ resp[t].kind = "validate_no_key"
        /\ outbound[t] = <<>>

\* C7: a chat request served while the endpoint or the key is missing makes
\* no upstream call.
C7_ChatNoKeyNoCall ==
    \A t \in Threads :
        (req[t].op = "chat" /\ (~Truthy(app_config.api_key) \/ ~Truthy(app_config.api_base))) =>
            outbound[t] = <<>>

\* C8: after save_config(e, k, m) succeeds, the snapshot it returns and the
\* stored configuration have endpoint e and model m, the stored key is k, and
\* a returned snapshot holds the endpoint and the model and nothing else.
C8_ConfigRoundTrip ==
    \A t \in Threads :
        (Finished(t, "save_config") /\ resp[t].status = 200) =>
            LET json == req[t].json
                snap == resp[t].body.config
            IN  /\ snap.api_base = json.api_base
                /\ app_config.api_base = json.api_base
                /\ app_config.api_key = json.api_key
                /\ "default_model" \in DOMAIN json =>
                      /\ snap.default_model = json.default_model
                      /\ app_config.default_model = json.default_model
                /\ DOMAIN snap = {"api_base", "default_model"}
                /\ \A f \in DOMAIN snap : snap[f] # app_config.api_key

C8_Witness ==
    \E t \in Threads :
        /\ Finished(t, "save_config")
        /\ resp[t].status = 200
        /\ req[t].json.api_key = "k1"
        /\ resp[t].body.config = [api_base |-> "e1", default_model |-> "m1"]

\* C9: a chat request whose message is empty or absent is answered 400,
\* empty message, and makes no upstream call.
C9_EmptyMessageRejected ==
    \A t \in Threads :
        (Finished(t, "chat") /\ ~Truthy(Get(req[t].json, "message", None))) =>
            /\ resp[t].status = 400
            /\ resp[t].kind = "chat_empty_message"
            /\ outbound[t] = <<>>

\* C10: when the upstream answers 200 without a usable choice, the chat
\* request made exactly one attempt and is answered 500 with an error that is
\* neither the one of a transport failure nor the one of an upstream HTTP error.
C10_MalformedDistinct ==
    \A t \in Threads :
        ( /\ Finished(t, "chat")
          /\ outbound[t] # <<>>
          /\ FirstAnswer(t).status_code = 200
          /\ FirstAnswer(t).body \in {"no_choices", "empty_choices", "no_content"} ) =>
            /\ Attempts(t) = 1
            /\ resp[t].status = 500
            /\ resp[t].kind # ChatResponse([raised |-> TRUE, status_code |-> 0, body |-> "-"]).kind
            /\ resp[t].kind # "chat_api_failed"

\* The absolute path obtained by joining the working directory with a
\* relative path and normalizing, and the other spellings of a path.
AbsoluteEquivalent(r) == normpath(join(cwd, r))
OtherSpellings(q) ==
    IF isabs(q)
    THEN { r \in RawPaths \ {EmptyPath} : ~isabs(r) /\ AbsoluteEquivalent(r) = q }
    ELSE { AbsoluteEquivalent(q) }

\* C11: a relative path and its absolute equivalent use the same cache key:
\* once a poll through one spelling has returned the time of a file, and
\* while the file keeps it, a poll through the other spelling resolves to
\* the same path and reports updated=false.
C11_SameCacheEntry ==
    \A t \in Threads :
        LET q == req[t].file_path
        IN  ( /\ Finished(t, "check_file_update")
              /\ resp[t].kind \in {"check_updated", "check_unchanged"}
              /\ fs[ResolvePath(q)] = resp[t].body.mtime ) =>
                \A o \in OtherSpellings(q) :
                    /\ ResolvePath(o) = ResolvePath(q)
                    /\ CompareAndStore(file_cache, ResolvePath(o), fs[ResolvePath(o)],
                                       Get(file_cache, ResolvePath(o), 0)).resp.body.updated = FALSE

C11_Witness ==
    \E t \in Threads :
        /\ Finished(t, "check_file_update")
        /\ req[t].file_path = Path(FALSE, <<".", "img.png">>)
        /\ resp[t].kind = "check_updated"
        /\ AbsoluteEquivalent(req[t].file_path) \in DOMAIN file_cache
        /\ file_cache[AbsoluteEquivalent(req[t].file_path)] = resp[t].body.mtime

\* C15: the first poll of a path that has no cache entry reports
\* updated=true and stores the file's time, whatever that time is.
C15_FirstObservationReportsUpdate ==
    [][\A t \in Threads :
          ( /\ pc[t] = "check_file_update_257"
            /\ pc'[t] = "done"
            /\ loc[t].file_path \notin DOMAIN file_cache ) =>
              /\ resp'[t].body.updated = TRUE
              /\ loc[t].file_path \in DOMAIN file_cache'
              /\ file_cache'[loc[t].file_path] = loc[t].current_mtime]_vars

\* C16 as claimed: a poll that reports updated=false reports the cached time.
C16_ReportsCachedTime ==
    \A t \in Threads :
        (Finished(t, "check_file_update") /\ resp[t].kind = "check_unchanged") =>
            resp[t].body.mtime = Cached(file_cache, ResolvePath(req[t].file_path))

\* C16: a poll that finds the file's time not newer than the cached one
\* reports updated=false with the file's current time (an older one when
\* the time went backwards) and leaves the cache as it is.
C16_ReportsCurrentTime ==
    [][\A t \in Threads :
          ( /\ pc[t] = "check_file_update_257"
            /\ pc'[t] = "done"
            /\ loc[t].current_mtime <= loc[t].cached_mtime ) =>
              /\ resp'[t].body.updated = FALSE
              /\ resp'[t].body.mtime = loc[t].current_mtime
              /\ file_cache' = file_cache]_vars

C16_Witness ==
    \E t \in Threads :
        LET p == ResolvePath(req[t].file_path)
        IN  /\ Finished(t, "check_file_update")
            /\ resp[t].kind = "check_unchanged"
            /\ p \in DOMAIN file_cache
            /\ resp[t].body.mtime < file_cache[p]
            /\ resp[t].body.mtime = fs[p]

\* C17: two polls of the same path never both report updated=true for the
\* same change of the file.
C17_OneWinnerPerChange ==
    \A t, u \in Threads :
        ( /\ t # u
          /\ Finished(t, "check_file_update") /\ resp[t].kind = "check_updated"
          /\ Finished(u, "check_file_update") /\ resp[u].kind = "check_updated"
          /\ ResolvePath(req[t].file_path) = ResolvePath(req[u].file_path) ) =>
            resp[t].body.mtime # resp[u].body.mtime

\* No request is being served.
Quiescent == \A t \in Threads : Idle(t)

\* C14 as claimed: between requests, the endpoint and the key are both unset
\* or both the values of the last save_config that succeeded.
C14_UnsetOrLastSaved ==
    Quiescent =>
        IF last_saved.saved
        THEN /\ app_config.api_base = last_saved.api_base
             /\ app_config.api_key = last_saved.api_key
        ELSE ~Truthy(app_config.api_base) /\ ~Truthy(app_config.api_key)

\* C14: between requests, the endpoint and the key are the defaults (the
\* DeepSeek endpoint and an empty key) or both set, to the values of the last
\* save_config that succeeded.
C14_DefaultOrLastSaved ==
    Quiescent =>
        IF last_saved.saved
        THEN /\ app_config.api_base = last_saved.api_base
             /\ app_config.api_key = last_saved.api_key
             /\ Truthy(app_config.api_base) /\ Truthy(app_config.api_key)
        ELSE /\ app_config.api_base = DEFAULT_CONFIG.api_base
             /\ app_config.api_key = DEFAULT_CONFIG.api_key

C14_Witness ==
    /\ Quiescent
    /\ last_saved.saved
    /\ app_config.api_base = "e1" /\ app_config.api_key = "k1"
    /\ \E t \in Threads : Finished(t, "save_config") /\ resp[t].status = 400

\* C18: a response to a request that got a non-200 answer from the
\* upstream, validate as well as chat, carries the upstream's status; any
\* other error response carries 400 or 500.
C18_StatusMirrorsUpstream ==
    \A t \in Threads :
        (pc[t] = "done" /\ resp[t].status # 200) =>
            IF outbound[t] # <<>> /\ HttpError(FirstAnswer(t))
            THEN resp[t].status = FirstAnswer(t).status_code
            ELSE resp[t].status \in {400, 500}

\* C20: no step of a save_config request that lacks the endpoint or the key
\* changes the stored configuration or calls the upstream, and the request
\* is answered 400.
C20_RejectedChangesNothing ==
    [][\A t \in Threads :
          ( /\ pc'[t] # pc[t]
            /\ req'[t].op = "save_config"
            /\ ConfigMissing(req'[t].json) ) =>
              /\ app_config' = app_config
              /\ outbound'[t] = <<>>
              /\ pc'[t] = "done" => resp'[t].status = 400]_vars

C20_Witness ==
    \E t \in Threads :
        /\ Finished(t, "save_config")
        /\ resp[t].status = 400
        /\ last_saved.saved
        /\ app_config.api_base = last_saved.api_base
        /\ app_config.api_key = last_saved.api_key
        /\ app_config.default_model # DEFAULT_CONFIG.default_model

\* The paths of ServeTargets whose extension is one of png, jpg, jpeg, gif,
\* bmp, webp, svg, in either case
C13_ImagePaths ==
    { Path(TRUE, <<"app", "img.png">>),
      Path(TRUE, <<"app", "PHOTO.JPG">>),
      Path(TRUE, <<"app", "logo.svg">>) }

\* C13: serve_image answers 200 with the file only when the path is not
\* empty, is a regular file when the handler opens it and has an image
\* extension; a path that does not exist when the handler looks for it is
\* answered 404 whatever its extension, and a regular file with another
\* extension is answered 400.
C13_ServeValidation ==
    [][\A t \in Threads :
          (req[t].op = "serve_image" /\ pc[t] # "done" /\ pc'[t] = "done") =>
              LET p == Resolved(req[t].path)
              IN  /\ resp'[t].status = 200 =>
                        /\ req[t].path # EmptyPath
                        /\ isfile(p)
                        /\ p \in C13_ImagePaths
                        /\ resp'[t].body.file = p
                  /\ (pc[t] = "serve_image_272" /\ req[t].path # EmptyPath /\ ~exists(p)) =>
                        resp'[t].status = 404
                  /\ (pc[t] = "serve_image_292" /\ isfile(p) /\ p \notin C13_ImagePaths) =>
                        resp'[t].status = 400]_vars

C13_Witness ==
    \E t \in Threads :
        /\ Finished(t, "serve_image")
        /\ resp[t].status = 200
        /\ resp[t].body.file = Path(TRUE, <<"app", "PHOTO.JPG">>)
        /\ isfile(Path(TRUE, <<"app", "notes.txt">>))

\* The file names of UploadNames whose extension is not one of png, jpg,
\* jpeg, gif, bmp, webp in either case
C12_Disallowed == { <<"x.exe">>, <<"logo.svg">> }

\* C12: no step of an upload_image request whose file name has a disallowed
\* extension creates or writes a file or a directory, and the request is
\* answered with the unsupported-type error.
C12_RejectedUploadWritesNothing ==
    [][\A t \in Threads :
          ( /\ pc'[t] # pc[t]
            /\ req'[t].op = "upload_image"
            /\ req'[t].filename \in C12_Disallowed ) =>
              /\ fs' = fs
              /\ dirs' = dirs
              /\ pc'[t] = "done" =>
                    resp'[t].kind = "upload_unsupported" /\ ~resp'[t].body.success]_vars

C12_Witness ==
    \E t \in Threads :
        /\ Finished(t, "upload_image")
        /\ req[t].filename = <<"x.exe">>
        /\ resp[t].kind = "upload_unsupported"
        /\ ~isdir(Resolved(upload_dir))

\* The request thread has the target of its write open.
Writing(t) == pc[t] \in {"upload_image_337", "update_test_image_389"}

\* C19: at most one write to a target path is in progress at a time.
C19_OneWriterPerPath ==
    \A t1, t2 \in Threads :
        (t1 # t2 /\ Writing(t1) /\ Writing(t2)) =>
            Resolved(loc[t1].file_path) # Resolved(loc[t2].file_path)

====
